---- MODULE Spec2Model ----
(***************************************************************************)
(* Model of the two pipelines of the repository:                           *)
(*   - NormDescriptorHistogram (analysis/library_mcd.py): the histogram    *)
(*     of square descriptor norms and its stratified sampling;             *)
(*   - C15Builder (structure/compact_phases_builder.py): the parser of the *)
(*     cluster centers, the agnostic center generation, the coordinate     *)
(*     expansion with deduplication, the removal of lattice sites and the  *)
(*     merged system of BuildC15Cluster.                                   *)
(*                                                                         *)
(* Arithmetic.  Square norms are modelled by naturals and every quotient   *)
(* of the code is kept as an exact fraction: a bin bound b is stored as    *)
(* nb_bin * b and a density d as (N * nb_bin) * d, so that the comparisons *)
(* of the code are integer comparisons.  Floating-point rounding is not    *)
(* modelled.  Site positions and tolerances are kept in half lattice       *)
(* units, distances are compared through their squares.                    *)
(***************************************************************************)
EXTENDS Integers, Sequences, FiniteSets, TLC

VARIABLES
    pc,                 \* "start", "hist" (a histogram exists), "c15" (a builder exists), "failed"
    error,              \* exception raised by the last operation, "none" if it returned
    op,                 \* name of the last operation that ran
    calls,              \* number of method calls made on the object
    \* ---- NormDescriptorHistogram
    array_norm_square,  \* self.array_norm_square : id -> square norm
    nb_bin,             \* self.nb_bin
    bin,                \* self.bin : k -> Bin
    bin_at_call,        \* histogram_sample: self.bin as the last call found it
    selection_bin,      \* histogram_sample: the bins drawn by the last call
    list_id_selected,   \* histogram_sample: the ids selected by the last call
    times_returned,     \* histogram_sample: id -> times it was returned, over all calls
    \* ---- C15Builder / A15Builder
    xml_root,           \* content of the file at path_inputs (exists = FALSE: no such file)
    dict_param,         \* self.dict_param : a0 and scale_factor
    centerC15,          \* self.centerC15 : index -> C15Center
    missing_key,        \* index named by the error of check_out_parser, -1 if none
    size,               \* self.size, "None" until a supercell is built
    explorated_dict,    \* self.explorated_dict, "None" until it is assigned
    cluster_size,       \* AgnosticPerfectC15Cluster: argument of the last call
    tolerance,          \* build_C15_system: argument of the last call
    build_log,          \* build_C15_system: every candidate position and its fate
    C15_atoms,          \* build_C15_system: positions of the returned Atoms
    cubic_supercell_unit, \* self.cubic_supercell_unit : positions, none until built
    extra_atom,         \* self.extra_atom : positions, "None" until assigned
    C15_system,         \* self.C15_system : positions and defect tags, "None" until assigned
    prev                \* what the call before the last one was and returned

histVars == <<array_norm_square, nb_bin, bin, bin_at_call, selection_bin, list_id_selected,
              times_returned>>
c15Vars == <<xml_root, dict_param, centerC15, missing_key, size, explorated_dict,
             cluster_size, tolerance, build_log, C15_atoms, cubic_supercell_unit,
             extra_atom, C15_system, prev>>
vars == <<pc, error, op, calls, histVars, c15Vars>>

-----------------------------------------------------------------------------
(* Bounds of the model *)
MaxN == 3          \* size of the descriptor pool
MaxNorm == 2       \* largest square norm
MaxBin == 2        \* largest nb_bin
MaxSelected == 2   \* largest nb_selected of a histogram_sample call
MaxCalls == 2      \* method calls on one object
MaxCenters == 2    \* entries of a group of the input file
MaxTol == 2        \* largest tolerance, in half lattice units

-----------------------------------------------------------------------------
(* Helpers *)
Range(s) == {s[i] : i \in DOMAIN s}

RECURSIVE SumOver(_, _)
SumOver(f, S) ==
    IF S = {} THEN 0
    ELSE LET x == CHOOSE y \in S : TRUE IN f[x] + SumOver(f, S \ {x})

Max(S) == CHOOSE x \in S : \A y \in S : y <= x
Min(S) == CHOOSE x \in S : \A y \in S : x <= y

\* All orders random.shuffle can leave a list in.
Shuffles(s) ==
    {t \in [DOMAIN s -> Range(s)] :
        \E p \in [DOMAIN s -> DOMAIN s] :
            /\ \A i, j \in DOMAIN s : i # j => p[i] # p[j]
            /\ \A i \in DOMAIN s : t[i] = s[p[i]]}

\* a[mask].tolist(): the selected entries, in increasing id order.
RECURSIVE MaskedIds(_, _)
MaskedIds(n, mask) ==
    IF n = 0 THEN <<>>
    ELSE IF mask[n - 1] THEN Append(MaskedIds(n - 1, mask), n - 1)
         ELSE MaskedIds(n - 1, mask)

-----------------------------------------------------------------------------
(* NormDescriptorHistogram *)

\* __init__: the empty bins, bounds scaled by nb (increment = (max - min) / nb).
EmptyBins(norms, nb) ==
    LET min_dis == Min(Range(norms))
        max_dis == Max(Range(norms))
    IN [k \in 0 .. nb - 1 |->
          [min |-> nb * min_dis + k * (max_dis - min_dis),
           max |-> nb * min_dis + (k + 1) * (max_dis - min_dis),
           list_norm |-> <<>>,
           list_id |-> <<>>,
           density |-> "None"]]

\* fill_histogram, first loop: the mask of one bin.
MaskBin(norms, nb, bin_data) ==
    [i \in DOMAIN norms |->
        /\ nb * norms[i] > bin_data.min
        /\ nb * norms[i] <= bin_data.max]

FillMembers(norms, nb, bins) ==
    [k \in DOMAIN bins |->
        LET ids == MaskedIds(Cardinality(DOMAIN norms), MaskBin(norms, nb, bins[k]))
        IN [bins[k] EXCEPT
              !.list_norm = bins[k].list_norm \o [j \in DOMAIN ids |-> norms[ids[j]]],
              !.list_id = bins[k].list_id \o ids]]

\* fill_histogram, density of one bin as a numerator over N * nb.
RawDensity(bin_data, nb) == nb * Len(bin_data.list_norm)

MissDensityPerValue(bins, n, nb) ==
    (n * nb - SumOver([k \in DOMAIN bins |-> RawDensity(bins[k], nb)], DOMAIN bins)) \div n

\* miss_density = (1.0 - sum_density) / nb_bin, as a numerator over N * nb.
MissDensity(bins, n, nb) ==
    (n * nb - SumOver([k \in DOMAIN bins |-> RawDensity(bins[k], nb)], DOMAIN bins)) \div nb

CorrectDensity(bins, n, nb) ==
    [k \in DOMAIN bins |->
        [bins[k] EXCEPT !.density = RawDensity(bins[k], nb) + MissDensity(bins, n, nb)]]

\* fill_histogram: members, shuffle of every list_id, corrected densities.
fill_histogram(norms, nb, bins, shuffled) ==
    LET filled == FillMembers(norms, nb, bins)
        mixed == [k \in DOMAIN filled |-> [filled[k] EXCEPT !.list_id = shuffled[k]]]
    IN CorrectDensity(mixed, Cardinality(DOMAIN norms), nb)

\* The outcomes of the random.shuffle calls of fill_histogram.
ShuffleChoices(norms, nb, bins) ==
    LET filled == FillMembers(norms, nb, bins)
    IN {f \in [DOMAIN filled -> UNION {Shuffles(filled[k].list_id) : k \in DOMAIN filled}] :
           \A k \in DOMAIN filled : f[k] \in Shuffles(filled[k].list_id)}

\* NormDescriptorHistogram(list_atoms, nb_bin) with nb_bin >= 1.
NewHistogram(norms, nb) ==
    /\ pc = "start"
    /\ nb >= 1
    /\ \E shuffled \in ShuffleChoices(norms, nb, EmptyBins(norms, nb)) :
          bin' = fill_histogram(norms, nb, EmptyBins(norms, nb), shuffled)
    /\ array_norm_square' = norms
    /\ nb_bin' = nb
    /\ pc' = "hist"
    /\ op' = "NormDescriptorHistogram"
    /\ error' = "none"
    /\ times_returned' = [id \in DOMAIN norms |-> 0]
    /\ UNCHANGED <<calls, bin_at_call, selection_bin, list_id_selected, c15Vars>>

\* NormDescriptorHistogram(list_atoms, 0): range(0) builds no bin and
\* (1.0 - sum_density) / 0 raises.
NewHistogramNoBin(norms) ==
    /\ pc = "start"
    /\ array_norm_square' = norms
    /\ nb_bin' = 0
    /\ bin' = <<>>
    /\ pc' = "failed"
    /\ op' = "NormDescriptorHistogram"
    /\ error' = "ZeroDivisionError"
    /\ times_returned' = [id \in DOMAIN norms |-> 0]
    /\ UNCHANGED <<calls, bin_at_call, selection_bin, list_id_selected, c15Vars>>

\* Body of the loop of histogram_sample for one drawn bin.
SampleStepKeep(bins, selected, sl_bin) ==
    LET ids == bins[sl_bin].list_id
    IN IF Len(ids) > 0
       THEN [bin |-> bins, selected |-> Append(selected, ids[Len(ids)])]
       ELSE [bin |-> bins, selected |-> selected]

SampleStepFirst(bins, selected, sl_bin) ==
    LET ids == bins[sl_bin].list_id
    IN IF Len(ids) > 0
       THEN [bin |-> [bins EXCEPT ![sl_bin].list_id = SubSeq(ids, 2, Len(ids))],
             selected |-> Append(selected, ids[1])]
       ELSE [bin |-> bins, selected |-> selected]

SampleStep(bins, selected, sl_bin) ==
    LET ids == bins[sl_bin].list_id
    IN IF Len(ids) > 0
       THEN [bin |-> [bins EXCEPT ![sl_bin].list_id = SubSeq(ids, 1, Len(ids) - 1)],
             selected |-> Append(selected, ids[Len(ids)])]
       ELSE [bin |-> bins, selected |-> selected]

\* The loop of histogram_sample over the drawn bins, from draw i on.
RECURSIVE SampleLoop(_, _, _, _)
SampleLoop(bins, selected, draws, i) ==
    IF i > Len(draws) THEN [bin |-> bins, selected |-> selected]
    ELSE LET out == SampleStep(bins, selected, draws[i])
         IN SampleLoop(out.bin, out.selected, draws, i + 1)

\* np.random.choice(range(nb_bin), nb_selected, p = densities): a bin of
\* probability 0 is never drawn.
Drawable(bins) == {k \in DOMAIN bins : bins[k].density > 0}

\* histogram_sample(nb_selected)
histogram_sample(nb_selected) ==
    /\ pc = "hist"
    /\ calls < MaxCalls
    /\ \E draws \in [1 .. nb_selected -> Drawable(bin)] :
          LET out == SampleLoop(bin, <<>>, draws, 1)
          IN /\ selection_bin' = draws
             /\ bin' = out.bin
             /\ list_id_selected' = out.selected
    /\ times_returned' =
          [id \in DOMAIN times_returned |->
              times_returned[id]
                  + Cardinality({i \in DOMAIN list_id_selected' : list_id_selected'[i] = id})]
    /\ bin_at_call' = bin
    /\ calls' = calls + 1
    /\ op' = "histogram_sample"
    /\ error' = "none"
    /\ UNCHANGED <<pc, array_norm_square, nb_bin, c15Vars>>

Pools == UNION {[0 .. n - 1 -> 0 .. MaxNorm] : n \in 1 .. MaxN}

-----------------------------------------------------------------------------
(* Geometry.  Centers are integer triples in lattice units.  Site positions *)
(* are center + tetra + 0.5 * gaos and are kept in half lattice units.      *)

Add3(p, q) == <<p[1] + q[1], p[2] + q[2], p[3] + q[3]>>
Twice(p) == <<2 * p[1], 2 * p[2], 2 * p[3]>>
Dist2(p, q) ==
    (p[1] - q[1]) * (p[1] - q[1]) + (p[2] - q[2]) * (p[2] - q[2])
        + (p[3] - q[3]) * (p[3] - q[3])

\* MetaOctahedron().typeOcta : the geometric template of each type (atom:
\* one offset per tetrahedron, gaos: the sites of each tetrahedron, link:
\* the offsets to the neighbouring centers, removeatom: the offsets of the
\* lattice sites to remove, an array of 3 rows and 6 columns).
typeOcta ==
    [type1 |-> [atom |-> << <<0, 0, 0>>, <<1, 0, 0>> >>,
                gaos |-> << << <<1, 0, 0>>, <<0, 1, 0>> >>,
                            << <<-1, 0, 0>>, <<0, 0, 1>> >> >>,
                link |-> << <<1, 1, 0>>, <<0, 1, 1>> >>,
                removeatom |-> << <<1, -1, 0, 0, 0, 0>>,
                                  <<0, 0, 1, -1, 0, 0>>,
                                  <<0, 0, 0, 0, 1, -1>> >>],
     type2 |-> [atom |-> << <<0, 0, 0>> >>,
                gaos |-> << << <<1, 0, 0>>, <<2, 0, 0>> >> >>,
                link |-> << <<1, 0, 1>>, <<1, 1, 0>> >>,
                removeatom |-> << <<1, -1, 0, 0, 0, 0>>,
                                  <<0, 0, 1, -1, 0, 0>>,
                                  <<0, 0, 0, 0, 1, -1>> >>]]

Types == {"type1", "type2"}

-----------------------------------------------------------------------------
(* C15Builder / A15Builder : the parser of the input file *)

SetKey(rec, key, val) ==
    [k \in DOMAIN rec \cup {key} |-> IF k = key THEN val ELSE rec[k]]

\* One group of the file: self.centerC15[id][key] = entry, for every entry.
RECURSIVE ParseGroup(_, _, _, _)
ParseGroup(centers, entries, key, id) ==
    IF id >= Len(entries) THEN centers
    ELSE LET known == IF id \in DOMAIN centers THEN centers[id] ELSE <<>>
             rec == SetKey(known, key, entries[id + 1])
         IN ParseGroup([k \in DOMAIN centers \cup {id} |->
                           IF k = id THEN rec ELSE centers[k]],
                       entries, key, id + 1)

\* InputsParser, the loop over the groups of the root.
RECURSIVE InputsParser(_, _)
InputsParser(centers, groups) ==
    IF groups = <<>> THEN centers
    ELSE LET g == Head(groups)
             after == IF g.tag = "Centers" THEN ParseGroup(centers, g.entries, "center", 0)
                      ELSE IF g.tag = "Type" THEN ParseGroup(centers, g.entries, "type", 0)
                      ELSE centers
         IN InputsParser(after, Tail(groups))

\* The order in which the keys of self.centerC15 were inserted.
RECURSIVE KeyOrder(_, _)
KeyOrder(groups, seen) ==
    IF groups = <<>> THEN seen
    ELSE LET n == Len(Head(groups).entries)
             fresh == [i \in 1 .. (IF n > Len(seen) THEN n - Len(seen) ELSE 0) |->
                           Len(seen) + i - 1]
         IN KeyOrder(Tail(groups), seen \o fresh)

check_out_parser_center_only(centers, order) ==
    LET bad == {i \in DOMAIN order : "center" \notin DOMAIN centers[order[i]]}
    IN IF bad = {} THEN -1 ELSE order[Min(bad)]

\* check_out_parser: the first key whose record lacks 'type' or 'center',
\* -1 when there is none.
check_out_parser(centers, order) ==
    LET bad == {i \in DOMAIN order : DOMAIN centers[order[i]] # {"center", "type"}}
    IN IF bad = {} THEN -1 ELSE order[Min(bad)]

\* compute_cell_size: int(scale_factor * np.amax(center coordinates)).
compute_cell_size(centers, param) ==
    param.scale_factor
        * Max(UNION {{centers[k].center[1], centers[k].center[2], centers[k].center[3]} :
                        k \in DOMAIN centers})

\* Inputs of the constructors.
CenterPool == {<<0, 0, 0>>, <<1, 0, 0>>}
\* The cluster sizes tried: below and above sqrt(3) * a0 for each a0.
ClusterSizes == {1, 2, 4}
Params == [a0 : {1, 2}, scale_factor : {1}]
SeqsUpTo(S, n) == UNION {[1 .. m -> S] : m \in 0 .. n}
\* A file holds the group "Centers" and the group "Type", in either order
\* (a missing group reads as an empty one).
Files ==
    [first : {"Centers", "Type"},
     Centers : SeqsUpTo(CenterPool, MaxCenters),
     Type : SeqsUpTo(Types, MaxCenters)]
\* The children of the root, in file order.
Groups(file) ==
    LET c == [tag |-> "Centers", entries |-> file.Centers]
        t == [tag |-> "Type", entries |-> file.Type]
    IN IF file.first = "Centers" THEN <<c, t>> ELSE <<t, c>>

\* SolidAse(size_list, element, 1.0).structure('BCC'): the sites of a cubic
\* supercell of sz cells a side, a corner site and a body-centered site per
\* cell, in half lattice units.
BCC(sz) ==
    [m \in 1 .. 2 * sz * sz * sz |->
        LET cell == (m - 1) \div 2
            b == (m - 1) % 2
        IN <<2 * (cell \div (sz * sz)) + b, 2 * ((cell \div sz) % sz) + b,
             2 * (cell % sz) + b>>]

\* An attribute holding an Atoms object, or None.
NoAtoms == [none |-> TRUE, positions |-> <<>>]
AtomsOf(positions) == [none |-> FALSE, positions |-> positions]

NoCall == [op |-> "none", tolerance |-> 0, natoms |-> 0]

\* C15Builder(dict_param, path_inputs) when no file exists at path_inputs.
NewC15BuilderNoFile(param) ==
    /\ pc = "start"
    /\ pc' = "c15"
    /\ op' = "C15Builder"
    /\ error' = "none"
    /\ dict_param' = param
    /\ xml_root' = [exists |-> FALSE, groups |-> <<>>]
    /\ UNCHANGED <<calls, histVars, centerC15, missing_key, size, explorated_dict,
                   cluster_size, tolerance, build_log, C15_atoms,
                   cubic_supercell_unit, extra_atom, C15_system, prev>>

\* C15Builder(dict_param, path_inputs) when the file exists: InputsParser,
\* check_out_parser, then build_cubic_supercell.
NewC15Builder(param, file) ==
    /\ pc = "start"
    /\ op' = "C15Builder"
    /\ dict_param' = param
    /\ xml_root' = [exists |-> TRUE, groups |-> Groups(file)]
    /\ LET parsed == InputsParser(centerC15, Groups(file))
           bad == check_out_parser(parsed, KeyOrder(Groups(file), <<>>))
       IN /\ centerC15' = parsed
          /\ missing_key' = bad
          /\ IF bad # -1
             THEN /\ error' = "TimeoutError"
                  /\ pc' = "failed"
                  /\ UNCHANGED <<size, cubic_supercell_unit>>
             ELSE IF DOMAIN parsed = {}
             THEN \* np.amax of an empty array
                  /\ error' = "ValueError"
                  /\ pc' = "failed"
                  /\ UNCHANGED <<size, cubic_supercell_unit>>
             ELSE /\ error' = "none"
                  /\ pc' = "c15"
                  /\ size' = compute_cell_size(parsed, param)
                  /\ cubic_supercell_unit' = AtomsOf(BCC(size'))
    /\ UNCHANGED <<calls, histVars, explorated_dict, cluster_size, tolerance,
                   build_log, C15_atoms, extra_atom, C15_system, prev>>

\* A15Builder(dict_param, path_inputs) when the file exists: the same parser,
\* then a call of build_cubic_supercell, which A15Builder does not define.
NewA15Builder(param, file) ==
    /\ pc = "start"
    /\ op' = "A15Builder"
    /\ dict_param' = param
    /\ xml_root' = [exists |-> TRUE, groups |-> Groups(file)]
    /\ LET parsed == InputsParser(centerC15, Groups(file))
           bad == check_out_parser(parsed, KeyOrder(Groups(file), <<>>))
       IN /\ centerC15' = parsed
          /\ missing_key' = bad
          /\ error' = IF bad # -1 THEN "TimeoutError" ELSE "AttributeError"
    /\ pc' = "failed"
    /\ UNCHANGED <<calls, histVars, size, explorated_dict, cluster_size, tolerance,
                   build_log, C15_atoms, cubic_supercell_unit, extra_atom,
                   C15_system, prev>>

-----------------------------------------------------------------------------
(* C15Builder : agnostic generation of the centers *)

\* The least natural n with n * n >= x: ceil(sqrt(x)).
CeilSqrt(x) == Min({n \in 0 .. x : n * n >= x})
\* ceil(p / q) for naturals, q > 0.
CeilDiv(p, q) == (p + q - 1) \div q

\* minimal_cluster_size = sqrt(3) * a0; cluster_size < minimal_cluster_size.
BelowMinimal(cs, param) == cs * cs < 3 * param.a0 * param.a0

\* compute_cell_size_draft(minimal_cluster_size): ceil(sqrt(3) * a0 * scale_factor / a0).
compute_cell_size_draft_minimal(param) ==
    CeilSqrt(3 * param.scale_factor * param.scale_factor)

\* compute_cell_size_draft(cluster_size): ceil(cluster_size * scale_factor / a0).
compute_cell_size_draft(cs, param) == CeilDiv(cs * param.scale_factor, param.a0)

\* compute_number_perfect_C15: int((ceil(size / minimal_size) + 1) ** 2),
\* ceil(size / (sqrt(3) * a0)) being the least n with 3 * n^2 * a0^2 >= size^2.
compute_number_perfect_C15(param, cs) ==
    LET n == Min({m \in 0 .. cs : 3 * m * m * param.a0 * param.a0 >= cs * cs})
    IN (n + 1) * (n + 1)

\* center_coordinates = [int(ceil(0.5 * size))] * 3
Centroid(sz) == LET c == CeilDiv(sz, 2) IN <<c, c, c>>

SeedCenterType2(sz) == [center |-> Centroid(sz), type |-> "type2"]

\* The record stored at self.centerC15[0].
SeedCenter(sz) == [center |-> Centroid(sz), type |-> "type1"]

\* self.centerC15[key] = record
SetCenter(centers, key, record) ==
    [k \in DOMAIN centers \cup {key} |-> IF k = key THEN record ELSE centers[k]]

\* random.shuffle(x) shuffles x in place and returns None.
random_shuffle(x) == "None"

\* for idx_C15 in range(1, Nb_C15): the first iteration evaluates
\* len(self.explorated_dict['link']), the link being None.
AgnosticLoop(centers, explorated, Nb_C15) ==
    IF Nb_C15 <= 1 THEN [centers |-> centers, error |-> "none"]
    ELSE [centers |-> centers, error |-> "TypeError"]

LastCall == [op |-> op, tolerance |-> tolerance, natoms |-> Len(C15_atoms)]

\* AgnosticPerfectC15Cluster(cluster_size), cluster_size < minimal_cluster_size.
AgnosticMinimal(cs) ==
    /\ pc = "c15"
    /\ calls < MaxCalls
    /\ BelowMinimal(cs, dict_param)
    /\ size' = compute_cell_size_draft_minimal(dict_param)
    /\ cubic_supercell_unit' = AtomsOf(BCC(size'))
    /\ centerC15' = SetCenter(centerC15, 0, SeedCenter(size'))
    /\ error' = "none"
    /\ cluster_size' = cs
    /\ op' = "AgnosticPerfectC15Cluster"
    /\ calls' = calls + 1
    /\ prev' = LastCall
    /\ UNCHANGED <<pc, histVars, xml_root, dict_param, missing_key, explorated_dict,
                   tolerance, build_log, C15_atoms, extra_atom, C15_system>>

\* AgnosticPerfectC15Cluster(cluster_size), cluster_size >= minimal_cluster_size.
AgnosticGrow(cs) ==
    /\ pc = "c15"
    /\ calls < MaxCalls
    /\ ~BelowMinimal(cs, dict_param)
    /\ size' = compute_cell_size_draft(cs, dict_param)
    /\ cubic_supercell_unit' = AtomsOf(BCC(size'))
    /\ explorated_dict' = [center |-> Centroid(size'),
                           type |-> "type2",
                           link |-> random_shuffle(typeOcta.type1.link)]
    /\ LET out == AgnosticLoop(SetCenter(centerC15, 0, SeedCenter(size')),
                               explorated_dict',
                               compute_number_perfect_C15(dict_param, cs))
       IN /\ centerC15' = out.centers
          /\ error' = out.error
    /\ cluster_size' = cs
    /\ op' = "AgnosticPerfectC15Cluster"
    /\ calls' = calls + 1
    /\ prev' = LastCall
    /\ UNCHANGED <<pc, histVars, xml_root, dict_param, missing_key,
                   tolerance, build_log, C15_atoms, extra_atom, C15_system>>

-----------------------------------------------------------------------------
(* C15Builder : coordinate expansion *)

\* The keys of self.centerC15 in iteration order (keys are inserted in
\* increasing order).
CenterKeys(centers) ==
    [i \in 1 .. Cardinality(DOMAIN centers) |->
        CHOOSE k \in DOMAIN centers : Cardinality({m \in DOMAIN centers : m <= k}) = i]

\* The sites of one center, over the tetrahedra then the gaos sites:
\* center_coordinate + tetra + 0.5 * gaos_tetra, in half lattice units.
RECURSIVE SitesOf(_, _, _)
SitesOf(center, id_tetra, id_gaos) ==
    LET template == typeOcta[center.type]
    IN IF id_tetra > Len(template.atom) THEN <<>>
       ELSE IF id_gaos > Len(template.gaos[id_tetra])
            THEN SitesOf(center, id_tetra + 1, 1)
            ELSE <<Add3(Twice(Add3(center.center, template.atom[id_tetra])),
                        template.gaos[id_tetra][id_gaos])>>
                     \o SitesOf(center, id_tetra, id_gaos + 1)

\* Every candidate position, in the order the three loops visit them.
RECURSIVE Candidates(_, _)
Candidates(centers, i) ==
    IF i > Cardinality(DOMAIN centers) THEN <<>>
    ELSE SitesOf(centers[CenterKeys(centers)[i]], 1, 1) \o Candidates(centers, i + 1)

TooCloseToLast(positions, p, tol) ==
    /\ Len(positions) > 0
    /\ Dist2(positions[Len(positions)], p) < tol * tol

\* len(list_position_C15) > 0 and np.amin(distance_array) < tolerance:
\* positions and tol in half lattice units.
TooClose(positions, p, tol) ==
    /\ Len(positions) > 0
    /\ \E i \in DOMAIN positions : Dist2(positions[i], p) < tol * tol

\* The loop body for the candidates from the i-th on.
RECURSIVE Deduplicate(_, _, _, _, _)
Deduplicate(cands, i, positions, log, tol) ==
    IF i > Len(cands) THEN [positions |-> positions, log |-> log]
    ELSE IF TooClose(positions, cands[i], tol)
         THEN Deduplicate(cands, i + 1, positions,
                          Append(log, [position |-> cands[i], accepted |-> FALSE]), tol)
         ELSE Deduplicate(cands, i + 1, Append(positions, cands[i]),
                          Append(log, [position |-> cands[i], accepted |-> TRUE]), tol)

KeptPositions(previous) == previous

\* list_position_C15 = [] at the start of every run.
InitialPositions(previous) == <<>>

\* build_C15_system(tolerance)
build_C15_system(tol) ==
    /\ pc = "c15"
    /\ calls < MaxCalls
    /\ LET out == Deduplicate(Candidates(centerC15, 1), 1,
                              InitialPositions(C15_atoms), <<>>, tol)
       IN /\ C15_atoms' = out.positions
          /\ build_log' = out.log
    /\ tolerance' = tol
    /\ error' = "none"
    /\ op' = "build_C15_system"
    /\ calls' = calls + 1
    /\ prev' = LastCall
    /\ UNCHANGED <<pc, histVars, xml_root, dict_param, centerC15, missing_key, size,
                   explorated_dict, cluster_size, cubic_supercell_unit, extra_atom,
                   C15_system>>

-----------------------------------------------------------------------------
(* C15Builder : removal of lattice sites and the merged system *)

\* typeOcta[type].removeatom.T + center : the six removal coordinates of
\* one center, in half lattice units.
RemovalOf(center) ==
    LET r == typeOcta[center.type].removeatom
    IN [i \in 1 .. 6 |-> Twice(Add3(<<r[1][i], r[2][i], r[3][i]>>, center.center))]

\* np.array([... for _, val in self.centerC15.items()]): an array of shape
\* (n, 6, 3), here in the row-major order reshape reads it in.
StackedRemoval(centers) ==
    [m \in 1 .. Cardinality(DOMAIN centers) * 18 |->
        RemovalOf(centers[CenterKeys(centers)[((m - 1) \div 18) + 1]])
            [(((m - 1) % 18) \div 3) + 1][((m - 1) % 3) + 1]]

\* ToRemoveCoordinate.reshape((3, len(self.centerC15) * 6)).T : row j of the
\* result holds the entries j, cols + j and 2 * cols + j of the array.
ToRemoveCoordinate(centers) ==
    LET cols == Cardinality(DOMAIN centers) * 6
        flat == StackedRemoval(centers)
    IN [j \in 1 .. cols |-> <<flat[j], flat[cols + j], flat[2 * cols + j]>>]

\* np.amin(np.linalg.norm(ToRemoveCoordinate - pos, axis = 1)) < tolerance
Removed(coords, pos, tol) ==
    \E coord \in coords : Dist2(coord, pos) < tol * tol

\* remove_atoms_in_system(system, tolerance): positions and tol in half
\* lattice units; np.amin of an empty array raises ValueError.
remove_atoms_in_system(centers, system, tol) ==
    LET coords == Range(ToRemoveCoordinate(centers))
    IN IF Len(system) > 0 /\ DOMAIN centers = {}
       THEN [error |-> "ValueError", system |-> system]
       ELSE [error |-> "none",
             system |-> SelectSeq(system, LAMBDA pos : ~Removed(coords, pos, tol))]

TaggedBackground(system, defect) ==
    [i \in DOMAIN system |-> [position |-> system[i], defect |-> 0]]

\* system.set_array('defect', ...): every site with its defect value.
Tagged(system, defect) ==
    [i \in DOMAIN system |-> [position |-> system[i], defect |-> defect]]

\* BuildC15Cluster(): build_C15_system and remove_atoms_in_system run with
\* their default tolerance, below one half lattice unit.  The rescaling of
\* the cell and the writing of the file are not modelled.
BuildC15Cluster ==
    /\ pc = "c15"
    /\ calls < MaxCalls
    /\ \E built \in {Deduplicate(Candidates(centerC15, 1), 1,
                                 InitialPositions(C15_atoms), <<>>, 1)} :
       \E extra \in {remove_atoms_in_system(centerC15, built.positions, 1)} :
          /\ C15_atoms' = built.positions
          /\ build_log' = built.log
          /\ IF extra.error # "none"
             THEN /\ error' = extra.error
                  /\ UNCHANGED <<extra_atom, cubic_supercell_unit, C15_system>>
             ELSE IF cubic_supercell_unit.none
             THEN \* len(None)
                  /\ extra_atom' = extra.system
                  /\ error' = "TypeError"
                  /\ UNCHANGED <<cubic_supercell_unit, C15_system>>
             ELSE \E bulk \in {remove_atoms_in_system(centerC15,
                                                      cubic_supercell_unit.positions, 1)} :
                     /\ extra_atom' = extra.system
                     /\ IF bulk.error # "none"
                        THEN /\ error' = bulk.error
                             /\ UNCHANGED <<cubic_supercell_unit, C15_system>>
                        ELSE /\ cubic_supercell_unit' = AtomsOf(bulk.system)
                             /\ C15_system' = Tagged(bulk.system, 0)
                                                  \o Tagged(extra.system, 1)
                             /\ error' = IF Len(cubic_supercell_unit.positions) = 0
                                         THEN "ZeroDivisionError"
                                         ELSE "none"
    /\ tolerance' = 1
    /\ op' = "BuildC15Cluster"
    /\ calls' = calls + 1
    /\ prev' = LastCall
    /\ UNCHANGED <<pc, histVars, xml_root, dict_param, centerC15, missing_key, size,
                   explorated_dict, cluster_size>>

-----------------------------------------------------------------------------
(* The state machine *)

Init ==
    /\ pc = "start"
    /\ error = "none"
    /\ op = "none"
    /\ calls = 0
    /\ array_norm_square = <<>>
    /\ nb_bin = 0
    /\ bin = <<>>
    /\ bin_at_call = <<>>
    /\ selection_bin = <<>>
    /\ list_id_selected = <<>>
    /\ times_returned = <<>>
    /\ xml_root = [exists |-> FALSE, groups |-> <<>>]
    /\ dict_param = [a0 |-> 1, scale_factor |-> 1]
    /\ centerC15 = <<>>
    /\ missing_key = -1
    /\ size = "None"
    /\ explorated_dict = "None"
    /\ cluster_size = 0
    /\ tolerance = 0
    /\ build_log = <<>>
    /\ C15_atoms = <<>>
    /\ cubic_supercell_unit = NoAtoms
    /\ extra_atom = "None"
    /\ C15_system = "None"
    /\ prev = NoCall

NextHist ==
    \/ pc = "start" /\ \E norms \in Pools, nb \in 1 .. MaxBin : NewHistogram(norms, nb)
    \/ pc = "start" /\ \E norms \in Pools : NewHistogramNoBin(norms)
    \/ pc = "hist" /\ \E k \in 0 .. MaxSelected : histogram_sample(k)

NextC15 ==
    \/ pc = "start" /\ \E param \in Params : NewC15BuilderNoFile(param)
    \/ pc = "start" /\ \E param \in Params, file \in Files : NewC15Builder(param, file)
    \/ pc = "start" /\ \E param \in Params, file \in Files : NewA15Builder(param, file)
    \/ pc = "c15" /\ \E cs \in ClusterSizes : AgnosticMinimal(cs)
    \/ pc = "c15" /\ \E cs \in ClusterSizes : AgnosticGrow(cs)
    \/ pc = "c15" /\ \E tol \in 0 .. MaxTol : build_C15_system(tol)
    \/ pc = "c15" /\ BuildC15Cluster

Next == NextHist \/ NextC15

Spec == Init /\ [][Next]_vars
SpecHist == Init /\ [][NextHist]_vars
SpecC15 == Init /\ [][NextC15]_vars

-----------------------------------------------------------------------------
(* Claims on NormDescriptorHistogram *)

Ids == DOMAIN array_norm_square
NbValues == Cardinality(Ids)
BinsHolding(id) == {k \in DOMAIN bin : id \in Range(bin[k].list_id)}
Built == pc = "hist" /\ op = "NormDescriptorHistogram"
LeftOut == {id \in Ids : BinsHolding(id) = {}}

\* C1: once the histogram is constructed, every input id is a member of
\* exactly one bin, the one with min < v <= max, and a value equal to the
\* global minimum is a member of bin 0.
C1_EveryValueInOneBin ==
    Built =>
        \A id \in Ids :
            /\ Cardinality(BinsHolding(id)) = 1
            /\ \A k \in BinsHolding(id) :
                  /\ nb_bin * array_norm_square[id] > bin[k].min
                     \/ array_norm_square[id] = Min(Range(array_norm_square))
                  /\ nb_bin * array_norm_square[id] <= bin[k].max
            /\ array_norm_square[id] = Min(Range(array_norm_square))
                  => BinsHolding(id) = {0}

\* C2: after fill_histogram the corrected densities (raw density plus the
\* uniform share of the missing density) sum to exactly 1, that is to
\* N * nb_bin over the denominator N * nb_bin, however many values were left
\* out of every bin; over that denominator the raw density of a bin is
\* nb_bin * |members| and the uniform share is N - (number of members of
\* all bins).
C2_DensitiesSumToOne ==
    pc = "hist" =>
        /\ SumOver([k \in DOMAIN bin |-> bin[k].density], DOMAIN bin) = NbValues * nb_bin
        /\ \A k \in DOMAIN bin :
              bin[k].density =
                  nb_bin * Len(bin[k].list_norm)
                      + (NbValues - SumOver([m \in DOMAIN bin |-> Len(bin[m].list_norm)],
                                            DOMAIN bin))

C2_Witness ==
    /\ Built
    /\ nb_bin >= 2
    /\ Cardinality(LeftOut) >= 2
    /\ \E k \in DOMAIN bin : Len(bin[k].list_norm) > 0
    /\ \E k \in DOMAIN bin : Len(bin[k].list_norm) = 0

\* C3: one call of histogram_sample(k) returns at most k ids, all of them
\* ids of the pool, and none of them twice.
C3_SampleBounded ==
    (pc = "hist" /\ op = "histogram_sample") =>
        /\ Len(list_id_selected) <= Len(selection_bin)
        /\ Range(list_id_selected) \subseteq Ids
        /\ \A i, j \in DOMAIN list_id_selected :
              i # j => list_id_selected[i] # list_id_selected[j]

C3_Witness ==
    /\ pc = "hist" /\ op = "histogram_sample"
    /\ Len(list_id_selected) = 2
    /\ selection_bin[1] = selection_bin[2]

\* Position of draw i among the draws of the same bin, in a sequence of draws.
RankOfDraw(draws, i) == Cardinality({j \in 1 .. i : draws[j] = draws[i]})
\* Draw i finds its bin non-empty when the bin held at least that many ids
\* at the start of the call.
DrawHits(bins, draws, i) == RankOfDraw(draws, i) <= Len(bins[draws[i]].list_id)
HitPositions(bins, draws) == {i \in DOMAIN draws : DrawHits(bins, draws, i)}
\* The i-th smallest element of a set of naturals.
NthOf(S, i) == CHOOSE x \in S : Cardinality({y \in S : y <= x}) = i

\* C8: in histogram_sample(k) a draw that finds its bin empty contributes
\* nothing and is not retried, a draw that finds it non-empty removes and
\* returns the last id of the bin; the number of ids returned is k minus
\* the number of draws that found an empty bin.
C8_EmptyDrawSkipped ==
    (pc = "hist" /\ op = "histogram_sample") =>
        LET draws == selection_bin
            hits == HitPositions(bin_at_call, draws)
        IN /\ Len(list_id_selected) = Len(draws) - Cardinality(DOMAIN draws \ hits)
           /\ \A n \in 1 .. Cardinality(hits) :
                 LET i == NthOf(hits, n)
                     ids == bin_at_call[draws[i]].list_id
                 IN list_id_selected[n] = ids[Len(ids) - RankOfDraw(draws, i) + 1]
           /\ \A k \in DOMAIN bin :
                 LET taken == Cardinality({i \in hits : draws[i] = k})
                 IN bin[k].list_id =
                        SubSeq(bin_at_call[k].list_id, 1, Len(bin_at_call[k].list_id) - taken)

\* An under-filled sample: a draw hit an empty bin after another of the same
\* call returned an id.
C8_Witness ==
    /\ pc = "hist" /\ op = "histogram_sample"
    /\ Len(list_id_selected) >= 1
    /\ Len(list_id_selected) < Len(selection_bin)

\* Number of ids held in the bins, of ids returned so far, and of values
\* binned (fill_histogram appends a value to list_norm with every id it
\* appends to list_id).
NbHeld == SumOver([k \in DOMAIN bin |-> Len(bin[k].list_id)], DOMAIN bin)
NbReturned == SumOver(times_returned, DOMAIN times_returned)
NbBinned == SumOver([k \in DOMAIN bin |-> Len(bin[k].list_norm)], DOMAIN bin)

\* C15: over all the histogram_sample calls made on a histogram, no id is
\* returned twice and a returned id is in no bin; the ids held in the bins
\* and the ids returned so far add up to the ids binned at construction; a
\* call adds no id to a bin and leaves the density, the bounds and the
\* list_norm of every bin as it found them.
C15_EveryIdReturnedAtMostOnce ==
    pc = "hist" =>
        /\ \A id \in Ids :
              /\ times_returned[id] <= 1
              /\ times_returned[id] = 1 => BinsHolding(id) = {}
        /\ NbHeld + NbReturned = NbBinned
        /\ op = "histogram_sample" =>
              /\ DOMAIN bin = DOMAIN bin_at_call
              /\ \A k \in DOMAIN bin :
                    /\ bin[k].density = bin_at_call[k].density
                    /\ bin[k].min = bin_at_call[k].min
                    /\ bin[k].max = bin_at_call[k].max
                    /\ bin[k].list_norm = bin_at_call[k].list_norm
                    /\ Range(bin[k].list_id) \subseteq Range(bin_at_call[k].list_id)
              /\ \A i \in DOMAIN list_id_selected :
                    /\ times_returned[list_id_selected[i]] = 1
                    /\ \E k \in DOMAIN bin :
                          list_id_selected[i] \in Range(bin_at_call[k].list_id)

\* Two calls that both returned ids, the second one drawing a bin that
\* the first one had exhausted.
C15_Witness ==
    /\ pc = "hist" /\ op = "histogram_sample" /\ calls = 2
    /\ Len(list_id_selected) >= 1
    /\ NbReturned > Len(list_id_selected)
    /\ \E i \in DOMAIN selection_bin :
          /\ bin_at_call[selection_bin[i]].list_id = <<>>
          /\ Len(bin[selection_bin[i]].list_norm) > 0
          /\ bin[selection_bin[i]].density > 0

-----------------------------------------------------------------------------
(* Claims on C15Builder *)

AfterAgnostic == pc = "c15" /\ op = "AgnosticPerfectC15Cluster"
AfterBuild == pc = "c15" /\ op = "build_C15_system"
\* c = ceil(sz / 2)
IsHalfCeil(c, sz) == 2 * c >= sz /\ 2 * (c - 1) < sz
IsSeed(record, sz) ==
    /\ record.type = "type1"
    /\ \A axis \in 1 .. 3 : IsHalfCeil(record.center[axis], sz)

\* C4 as stated: after a call with a target size below the minimal size the
\* center map holds exactly one center, at index 0, at the centroid of the
\* supercell and of type 'type1'.
C4_ExactlyOneCenter ==
    (AfterAgnostic /\ BelowMinimal(cluster_size, dict_param)) =>
        /\ DOMAIN centerC15 = {0}
        /\ IsSeed(centerC15[0], size)

\* C4 as amended: a call with a target size below the minimal size writes
\* exactly one center, at index 0, at the centroid of the supercell and of
\* type 'type1', raises nothing and generates no other center; the centers
\* the map held at other indices are kept as they were.
C4_OneCenterWritten ==
    [][(op' = "AgnosticPerfectC15Cluster" /\ calls' = calls + 1
            /\ BelowMinimal(cluster_size', dict_param)) =>
        /\ error' = "none"
        /\ DOMAIN centerC15' = DOMAIN centerC15 \cup {0}
        /\ IsSeed(centerC15'[0], size')
        /\ \A k \in DOMAIN centerC15 \ {0} : centerC15'[k] = centerC15[k]
        /\ explorated_dict' = explorated_dict
       ]_vars

C4_Witness ==
    /\ AfterAgnostic /\ BelowMinimal(cluster_size, dict_param)
    /\ ~xml_root.exists
    /\ DOMAIN centerC15 = {0}
    /\ centerC15[0].center = <<1, 1, 1>>

\* Number of sites of the template of a type, and of its first tetrahedra.
SitesBefore(type, id_tetra) ==
    SumOver([t \in 1 .. id_tetra - 1 |-> Len(typeOcta[type].gaos[t])], 1 .. id_tetra - 1)
NbSites(type) == SitesBefore(type, Len(typeOcta[type].atom) + 1)
\* Number of candidates enumerated before those of the center of index k.
LogOffset(k) ==
    SumOver([m \in DOMAIN centerC15 |-> NbSites(centerC15[m].type)],
            {m \in DOMAIN centerC15 : m < k})
AcceptedEntries == {j \in DOMAIN build_log : build_log[j].accepted}

\* The candidates are enumerated over the centers, their tetrahedra and
\* their sites, and the returned positions are the accepted ones, in order.
LogIsEnumeration ==
    /\ Len(build_log) = SumOver([m \in DOMAIN centerC15 |-> NbSites(centerC15[m].type)],
                                DOMAIN centerC15)
    /\ \A k \in DOMAIN centerC15 :
          \A t \in DOMAIN typeOcta[centerC15[k].type].atom :
             \A g \in DOMAIN typeOcta[centerC15[k].type].gaos[t] :
                build_log[LogOffset(k) + SitesBefore(centerC15[k].type, t) + g].position
                  = Add3(Twice(Add3(centerC15[k].center, typeOcta[centerC15[k].type].atom[t])),
                         typeOcta[centerC15[k].type].gaos[t][g])
    /\ Len(C15_atoms) = Cardinality(AcceptedEntries)
    /\ \A n \in DOMAIN C15_atoms : C15_atoms[n] = build_log[NthOf(AcceptedEntries, n)].position

\* C5 as stated: a candidate is accepted if and only if its distance to
\* every previously accepted position exceeds the tolerance.
C5_AcceptedIffFarther ==
    AfterBuild =>
        \A j \in DOMAIN build_log :
            build_log[j].accepted <=>
                \A i \in 1 .. j - 1 :
                    build_log[i].accepted =>
                        Dist2(build_log[i].position, build_log[j].position)
                            > tolerance * tolerance

\* C5 as amended: a candidate, taken in enumeration order over centers,
\* sub-units and sites, is accepted if and only if its distance to every
\* previously accepted position is at least the tolerance (a candidate at
\* exactly the tolerance is accepted); a single center whose sites are at
\* least the tolerance apart yields all of them, and of two equal centers,
\* with a tolerance above zero, only the sites of the first are accepted.
C5_AcceptedIffNotCloser ==
    AfterBuild =>
        /\ LogIsEnumeration
        /\ \A j \in DOMAIN build_log :
              build_log[j].accepted <=>
                  \A i \in 1 .. j - 1 :
                      build_log[i].accepted =>
                          Dist2(build_log[i].position, build_log[j].position)
                              >= tolerance * tolerance
        /\ (/\ DOMAIN centerC15 = {0}
            /\ \A i, j \in DOMAIN build_log :
                  i # j => Dist2(build_log[i].position, build_log[j].position)
                              >= tolerance * tolerance)
              => C15_atoms = [j \in DOMAIN build_log |-> build_log[j].position]
        /\ (DOMAIN centerC15 = {0, 1} /\ centerC15[0] = centerC15[1] /\ tolerance > 0)
              => AcceptedEntries \subseteq 1 .. NbSites(centerC15[0].type)

\* Two centers at the same place: the sites of the second are all discarded;
\* and a candidate at exactly the tolerance of an accepted one was accepted.
C5_Witness ==
    /\ AfterBuild
    /\ DOMAIN centerC15 = {0, 1} /\ centerC15[0] = centerC15[1]
    /\ centerC15[0].type = "type2"
    /\ tolerance = 1
    /\ Len(C15_atoms) = 2
    /\ Dist2(C15_atoms[1], C15_atoms[2]) = tolerance * tolerance

\* C6: running build_C15_system twice on the same center map, with the same
\* tolerance, yields the same number of accepted positions, and a run
\* leaves the center map unchanged.
C6_ExpansionIdempotent ==
    [][(op' = "build_C15_system" /\ calls' = calls + 1) =>
        /\ centerC15' = centerC15
        /\ (op = "build_C15_system" /\ tolerance' = tolerance)
              => Len(C15_atoms') = Len(C15_atoms)
       ]_vars

C6_Witness ==
    /\ AfterBuild
    /\ prev.op = "build_C15_system"
    /\ prev.tolerance = tolerance
    /\ prev.natoms = Len(C15_atoms)
    /\ Len(C15_atoms) > 0
    /\ Len(C15_atoms) < Len(build_log)

\* The entries of a group of the parsed file.
EntriesOf(tag) ==
    xml_root.groups[CHOOSE i \in DOMAIN xml_root.groups : xml_root.groups[i].tag = tag].entries
AfterParse == op \in {"C15Builder", "A15Builder"} /\ xml_root.exists

\* C7: InputsParser pairs the i-th center with the i-th type; when some
\* index has a center without a type or a type without a center, parsing
\* ends in an error that names such an index; otherwise it succeeds with
\* one record per index.
C7_ParserPairsByIndex ==
    AfterParse =>
        LET nc == Len(EntriesOf("Centers"))
            nt == Len(EntriesOf("Type"))
        IN IF nc # nt
           THEN /\ error = "TimeoutError"
                /\ pc = "failed"
                /\ missing_key >= Min({nc, nt})
                /\ missing_key < Max({nc, nt})
           ELSE /\ error # "TimeoutError"
                /\ missing_key = -1
                /\ DOMAIN centerC15 = 0 .. nc - 1
                /\ \A i \in 0 .. nc - 1 :
                      /\ DOMAIN centerC15[i] = {"center", "type"}
                      /\ centerC15[i].center = EntriesOf("Centers")[i + 1]
                      /\ centerC15[i].type = EntriesOf("Type")[i + 1]

\* Two centers and one type, the types first: index 1 is named.
C7_Witness ==
    /\ AfterParse
    /\ xml_root.groups[1].tag = "Type"
    /\ Len(EntriesOf("Centers")) = 2 /\ Len(EntriesOf("Type")) = 1
    /\ error = "TimeoutError"
    /\ missing_key = 1

\* n = ceil(cs / (sqrt(3) * a0))
IsCeilRatio(n, cs, a0) ==
    /\ 3 * n * n * a0 * a0 >= cs * cs
    /\ n > 0 => 3 * (n - 1) * (n - 1) * a0 * a0 < cs * cs
ExpectedNb ==
    LET n == CHOOSE m \in 0 .. cluster_size : IsCeilRatio(m, cluster_size, dict_param.a0)
    IN (n + 1) * (n + 1)

\* C9: a call with a target size at or above the minimal size terminates
\* without error and leaves exactly Nb = (ceil(target / minimal) + 1)^2
\* centers, at the indices 0 .. Nb - 1, center 0 at the supercell centroid.
C9_GeneratesNbCenters ==
    (AfterAgnostic /\ ~BelowMinimal(cluster_size, dict_param)) =>
        /\ error = "none"
        /\ DOMAIN centerC15 = 0 .. ExpectedNb - 1
        /\ IsSeed(centerC15[0], size)

LinkOffsets == UNION {Range(typeOcta[t].link) : t \in Types}

\* C10: during the generation every new center (the indices 1 .. Nb - 1)
\* is placed at the position of its anchor, a center generated before it,
\* plus an offset of the link list.
C10_NewCenterAtAnchorPlusOffset ==
    (AfterAgnostic /\ ~BelowMinimal(cluster_size, dict_param)) =>
        \A idx \in 1 .. ExpectedNb - 1 :
            /\ idx \in DOMAIN centerC15
            /\ \E anchor \in 0 .. idx - 1, offset \in LinkOffsets :
                  centerC15[idx].center = Add3(centerC15[anchor].center, offset)

\* change_type = {'type1': 'type2', 'type2': 'type1'}
change_type(t) == IF t = "type1" THEN "type2" ELSE "type1"

\* The running indices of a call at which the link list is exhausted
\* (idx_C15 % len(link) = 0), the link lists of a type having LinkLen(t)
\* offsets, and the trailing window range(idx - 1 - len(link), idx - 1).
LinkLen(t) == Len(typeOcta[t].link)
Wraps(t) == {w \in 1 .. ExpectedNb - 1 : w % LinkLen(t) = 0}
Window(w, t) == (w - 1 - LinkLen(t)) .. (w - 2)

\* C11: a call whose running index reaches a multiple of the link-list
\* length has re-anchored: the anchor it grows from is one center of the
\* trailing window of the last such index, that index is a key of the center
\* map, and the active type is the opposite of the anchor's type.
C11_ReanchorPicksGeneratedIndex ==
    (AfterAgnostic /\ ~BelowMinimal(cluster_size, dict_param)) =>
        \A t \in Types :
            Wraps(t) # {} =>
                \E new_idx_center \in Window(Max(Wraps(t)), t) :
                    /\ new_idx_center \in DOMAIN centerC15
                    /\ explorated_dict.center = centerC15[new_idx_center].center
                    /\ explorated_dict.type = change_type(centerC15[new_idx_center].type)

\* C12: every center generated after the seed (the indices 1 .. Nb - 1)
\* carries a type, the centers grown from the seed carry the type opposite
\* to the seed's, and two consecutive centers differ in type only where the
\* second one follows a re-anchoring step.
C12_NewCenterHasAlternateType ==
    (AfterAgnostic /\ ~BelowMinimal(cluster_size, dict_param)) =>
        /\ \A idx \in 1 .. ExpectedNb - 1 :
              /\ idx \in DOMAIN centerC15
              /\ centerC15[idx].type \in Types
        /\ \A idx \in 1 .. LinkLen("type1") - 1 :
              centerC15[idx].type = change_type(centerC15[0].type)
        /\ \A idx \in 2 .. ExpectedNb - 1 :
              (\A t \in Types : idx % LinkLen(t) # 0) =>
                  centerC15[idx].type = centerC15[idx - 1].type

-----------------------------------------------------------------------------
(* Claims on the removal pass and on the merged system *)

AfterCluster == pc = "c15" /\ op = "BuildC15Cluster"

\* The removal coordinates of a center map: the position of a center plus
\* a removal offset of the type of that center.
RemovalCoordinates(centers) ==
    UNION {Range(RemovalOf(centers[k])) : k \in DOMAIN centers}

\* The sites of a system lying farther than tol from every removal
\* coordinate, in the order of the system.
FartherSites(system, centers, tol) ==
    SelectSeq(system, LAMBDA pos : \A coord \in RemovalCoordinates(centers) :
                                       Dist2(coord, pos) >= tol * tol)

\* C13: remove_atoms_in_system returns the sites of the system it is given
\* that lie farther than the tolerance from every removal coordinate, in
\* their order: of the expanded positions for the inserted atoms, and of
\* the sites of the supercell for the background.
C13_RemovesSitesAtRemovalCoordinates ==
    AfterCluster =>
        /\ extra_atom = FartherSites(C15_atoms, centerC15, tolerance)
        /\ ~cubic_supercell_unit.none =>
              cubic_supercell_unit.positions = FartherSites(BCC(size), centerC15, tolerance)

\* The sites of a system that the removal pass of the code keeps: those
\* farther than the tolerance from every row of ToRemoveCoordinate.
Survivors(system) ==
    LET coords == Range(ToRemoveCoordinate(centerC15))
    IN SelectSeq(system, LAMBDA pos : ~Removed(coords, pos, tolerance))

\* The positions the coordinate expansion accepted, in order.
AcceptedPositions ==
    LET kept == SelectSeq(build_log, LAMBDA entry : entry.accepted)
    IN [i \in DOMAIN kept |-> kept[i].position]

\* A system made of the sites of background, each with defect 0, followed
\* by the sites of inserted, each with defect 1.
IsMergeOf(system, background, inserted) ==
    /\ Len(system) = Len(background) + Len(inserted)
    /\ \A i \in DOMAIN background :
          system[i] = [position |-> background[i], defect |-> 0]
    /\ \A i \in DOMAIN inserted :
          system[Len(background) + i] = [position |-> inserted[i], defect |-> 1]

====
